---- MODULE Spec2Model ----
(***************************************************************************)
(* movie-zone: the Filter panel (src/components/common/Filter.tsx) and the *)
(* Contact form (Contact component).  Each component is a state machine of *)
(* its React state, its props and the collaborators its handlers touch.    *)
(*                                                                         *)
(* One action is one browser event: the handler, the re-render it causes   *)
(* and the passive effects of that render, which React flushes before the  *)
(* next event is dispatched.                                               *)
(*                                                                         *)
(* Strings are TLA+ strings drawn from small universes.  An optional value *)
(* (undefined / null in the source) is a sequence of length 0 or 1.        *)
(***************************************************************************)
EXTENDS Naturals, Sequences, FiniteSets

VARIABLES
    \* ---- Filter panel ----
    mounted,         \* the Filter component is mounted
    isMobile,        \* prop isMobile
    hasOnApply,      \* prop onApply is supplied
    initialFilters,  \* prop initialFilters: None or Some(FilterOptions)
    filters,         \* state filters
    savedState,      \* what loadFilterState returned in the state initializer
    pathname,        \* window.location.pathname
    store,           \* the persisted per-path store: path -> None | Some(FilterOptions)
    calls,           \* callback invocations made by the last event, in order
    fevent,          \* the last Filter event: [op, key, value]
    \* ---- Contact form ----
    env,             \* import.meta.env: name -> string ("" = not set)
    formData,        \* state formData
    status,          \* state status
    errorMessage,    \* state errorMessage
    deliveries,      \* emailjs.send calls: sequence of [args, payload, state]
    timers,          \* pending setTimeout callbacks, in firing order (submission ids)
    toasts,          \* toast calls made by the last event
    submissions,     \* number of handleSubmit invocations so far
    owner,           \* the submission whose handleSubmit last wrote status
    cevent           \* the last Contact event: [op, id]

fvars == <<mounted, isMobile, hasOnApply, initialFilters, filters, savedState,
           pathname, store, calls, fevent>>
cvars == <<env, formData, status, errorMessage, deliveries, timers, toasts,
           submissions, owner, cevent>>
vars == <<mounted, isMobile, hasOnApply, initialFilters, filters, savedState,
          pathname, store, calls, fevent,
          env, formData, status, errorMessage, deliveries, timers, toasts,
          submissions, owner, cevent>>

None == <<>>
Some(x) == <<x>>

(***************************************************************************)
(* Bounds                                                                  *)
(***************************************************************************)
\* submissions of the contact form in one run
MaxSubmissions == 2

(***************************************************************************)
(* Filter panel                                                            *)
(***************************************************************************)
Keys == {"genre", "year", "sort"}

\* The strings a field can be given: by a chip / the slider, by the parent,
\* or by any other caller of the exported component.
GenreStrings == {"", "action", "Action"}
YearStrings == {"", "2020"}
SortStrings == {"popularity.desc", "release_date.asc"}

Values(key) ==
    CASE key = "genre" -> GenreStrings
      [] key = "year" -> YearStrings
      [] key = "sort" -> SortStrings

FilterOptions == [genre : GenreStrings, year : YearStrings, sort : SortStrings]

Paths == {"/movies", "/tv"}

\* String.prototype.toLowerCase over the universe of strings above.
ToLowerCase(s) ==
    CASE s = "Action" -> "action"
      [] OTHER -> s

defaultFilters == [genre |-> "", year |-> "", sort |-> "popularity.desc"]

\* utils/filterState: load(key) -> FilterOptions | absent
loadFilterState(st, path) == st[path]

\* utils/filterState: save(key, value)
saveFilterState(st, path, f) == [st EXCEPT ![path] = Some(f)]

\* a || b for optional values
OrElse(a, b) == IF a # None THEN a ELSE b

\* useState initializer: savedState || initialFilters || defaults
InitialState(saved, init) == OrElse(saved, OrElse(init, Some(defaultFilters)))[1]

\* the updater of the sync effect: {...current, ...initialFilters}
Spread(current, over) == [k \in Keys |-> IF k \in DOMAIN over THEN over[k] ELSE current[k]]

\* useEffect(..., [initialFilters]): the state after the effect's update, if any
SyncEffect(current, init) == IF init # None THEN Spread(current, init[1]) ELSE current

\* SaveEffect with the effect dropped: nothing is saved when filters change.
SaveEffect_Dropped(st, path, f) == st

\* useEffect(..., [filters]): saveFilterState(pathname, filters)
SaveEffect(st, path, f) == saveFilterState(st, path, f)

Call(cb, arg) == [cb |-> cb, arg |-> arg]

FilterEvent(op, key, value) == [op |-> op, key |-> key, value |-> value]

\* NewFilters built from the defaults instead of the current filters.
NewFilters_FromDefaults(current, key, value) ==
    [defaultFilters EXCEPT ![key] = ToLowerCase(value)]

\* handleFilterChange: {...filters, [key]: value.toLowerCase()}
NewFilters(current, key, value) == [current EXCEPT ![key] = ToLowerCase(value)]

\* ChangeCalls without the isMobile test.
ChangeCalls_Always(mobile, newFilters) == <<Call("onFilterChange", newFilters)>>

\* handleFilterChange: the callbacks it invokes
ChangeCalls(mobile, newFilters) ==
    IF ~mobile THEN <<Call("onFilterChange", newFilters)>> ELSE <<>>

\* handleFilterChange: its own save (desktop only)
ChangeSave(st, path, mobile, newFilters) ==
    IF ~mobile THEN saveFilterState(st, path, newFilters) ELSE st

\* ResetCalls without the mobile branch.
ResetCalls_ChangeOnly(mobile, onApply, d) == <<Call("onFilterChange", d)>>

\* handleReset: the callback it invokes
ResetCalls(mobile, onApply, d) ==
    IF mobile /\ onApply THEN <<Call("onApply", d)>> ELSE <<Call("onFilterChange", d)>>

\* handleApply: the callback it invokes
ApplyCalls(mobile, onApply, f) ==
    IF mobile /\ onApply THEN <<Call("onApply", f)>> ELSE <<>>

\* handleApply: its own save
ApplySave(st, path, mobile, onApply, f) ==
    IF mobile /\ onApply THEN saveFilterState(st, path, f) ELSE st

FilterInit ==
    /\ mounted = FALSE
    /\ isMobile \in BOOLEAN
    /\ hasOnApply \in BOOLEAN
    /\ initialFilters = None
    /\ filters = defaultFilters
    /\ savedState = None
    /\ pathname \in Paths
    /\ store = [p \in Paths |-> None]
    /\ calls = <<>>
    /\ fevent = FilterEvent("none", "", "")

\* The panel before it is ever mounted, on a desktop page: the state the
\* Filter variables keep while only the Contact form is exercised.
FilterQuiet ==
    /\ mounted = FALSE
    /\ isMobile = FALSE
    /\ hasOnApply = FALSE
    /\ initialFilters = None
    /\ filters = defaultFilters
    /\ savedState = None
    /\ pathname = "/movies"
    /\ store = [p \in Paths |-> None]
    /\ calls = <<>>
    /\ fevent = FilterEvent("none", "", "")

\* Mount: the state initializer, then the two mount effects (both read the
\* filters of the first render), then the re-render the sync effect asked
\* for and the save effect of that render.
Mount(init) ==
    /\ ~mounted
    /\ LET saved == loadFilterState(store, pathname)
           first == InitialState(saved, init)
           synced == SyncEffect(first, init)
           st1 == SaveEffect(store, pathname, first)
       IN /\ savedState' = saved
          /\ filters' = synced
          /\ store' = IF init # None THEN SaveEffect(st1, pathname, synced) ELSE st1
    /\ mounted' = TRUE
    /\ initialFilters' = init
    /\ calls' = <<>>
    /\ fevent' = FilterEvent("mount", "", "")
    /\ UNCHANGED <<isMobile, hasOnApply, pathname>>
    /\ UNCHANGED cvars

\* The parent re-renders the panel with a new initialFilters prop: the sync
\* effect runs, and the save effect of the render its update causes.
ParentUpdate(init) ==
    /\ mounted
    /\ initialFilters' = init
    /\ filters' = SyncEffect(filters, init)
    /\ store' = IF init # None THEN SaveEffect(store, pathname, filters') ELSE store
    /\ calls' = <<>>
    /\ fevent' = FilterEvent("parent", "", "")
    /\ UNCHANGED <<mounted, isMobile, hasOnApply, savedState, pathname>>
    /\ UNCHANGED cvars

\* A chip click or a slider move: handleFilterChange, then the save effect
\* of the render setFilters causes.
HandleFilterChange(key, value) ==
    /\ mounted
    /\ LET newFilters == NewFilters(filters, key, value)
       IN /\ filters' = newFilters
          /\ calls' = ChangeCalls(isMobile, newFilters)
          /\ store' = SaveEffect(ChangeSave(store, pathname, isMobile, newFilters),
                                 pathname, newFilters)
    /\ fevent' = FilterEvent("change", key, value)
    /\ UNCHANGED <<mounted, isMobile, hasOnApply, initialFilters, savedState, pathname>>
    /\ UNCHANGED cvars

\* The Reset button: handleReset, then the save effect.
HandleReset ==
    /\ mounted
    /\ filters' = defaultFilters
    /\ calls' = ResetCalls(isMobile, hasOnApply, defaultFilters)
    /\ store' = SaveEffect(saveFilterState(store, pathname, defaultFilters),
                           pathname, defaultFilters)
    /\ fevent' = FilterEvent("reset", "", "")
    /\ UNCHANGED <<mounted, isMobile, hasOnApply, initialFilters, savedState, pathname>>
    /\ UNCHANGED cvars

\* The Apply button, rendered only when isMobile: handleApply.  No state
\* changes, so no effect runs.
HandleApply ==
    /\ mounted
    /\ isMobile
    /\ calls' = ApplyCalls(isMobile, hasOnApply, filters)
    /\ store' = ApplySave(store, pathname, isMobile, hasOnApply, filters)
    /\ fevent' = FilterEvent("apply", "", "")
    /\ UNCHANGED <<mounted, isMobile, hasOnApply, initialFilters, filters, savedState,
                   pathname>>
    /\ UNCHANGED cvars

\* The panel is closed / its page left: the component state is discarded.
Unmount ==
    /\ mounted
    /\ mounted' = FALSE
    /\ initialFilters' = None
    /\ filters' = defaultFilters
    /\ savedState' = None
    /\ calls' = <<>>
    /\ fevent' = FilterEvent("unmount", "", "")
    /\ UNCHANGED <<isMobile, hasOnApply, pathname, store>>
    /\ UNCHANGED cvars

\* Navigation to another page while no panel is mounted.
Navigate(p) ==
    /\ ~mounted
    /\ p # pathname
    /\ pathname' = p
    /\ calls' = <<>>
    /\ fevent' = FilterEvent("navigate", "", "")
    /\ UNCHANGED <<mounted, isMobile, hasOnApply, initialFilters, filters, savedState,
                   store>>
    /\ UNCHANGED cvars

\* What a parent passes as initialFilters: nothing, the defaults, or a
\* selection of its own (as typed by the parent, lowercase or not).
ParentFilters ==
    {None,
     Some(defaultFilters),
     Some([genre |-> "action", year |-> "2020", sort |-> "popularity.desc"]),
     Some([genre |-> "Action", year |-> "", sort |-> "release_date.asc"])}

FilterNext ==
    \/ \E init \in ParentFilters : Mount(init)
    \/ \E init \in ParentFilters : ParentUpdate(init)
    \/ \E key \in Keys : \E value \in Values(key) : HandleFilterChange(key, value)
    \/ HandleReset
    \/ HandleApply
    \/ Unmount
    \/ \E p \in Paths : Navigate(p)

(***************************************************************************)
(* Contact form                                                            *)
(***************************************************************************)
EnvNames == {"VITE_EMAILJS_SERVICE_ID", "EMAILJS_SERVICE_ID",
             "VITE_EMAILJS_TEMPLATE_ID", "EMAILJS_TEMPLATE_ID",
             "VITE_EMAILJS_PUBLIC_KEY", "EMAILJS_PUBLIC_KEY"}

\* Each variable is unset ("") or set to a value of its own (its name).
Envs == {e \in [EnvNames -> {""} \cup EnvNames] : \A n \in EnvNames : e[n] \in {"", n}}

Fields == {"name", "email", "subject", "message"}

FieldStrings(field) ==
    CASE field = "name" -> {"", "Ann", "Bob"}
      [] field = "email" -> {"", "ann@example.com"}
      [] field = "subject" -> {"", "Hello"}
      [] field = "message" -> {"", "Great site"}

\* useAuth(): no user, or a user with or without a full name
Users == {None,
          Some([full_name |-> "Ann", email |-> "ann@example.com"]),
          Some([full_name |-> "", email |-> "ann@example.com"])}

ConfigErrorMessage == "EmailJS configuration is missing. Please check your .env file."
FallbackMessage == "Sorry, we couldn't send your message right now. Please try again later."
NetworkMessage == "Failed to fetch"

\* what emailjs.send can reject with: an Error, or a value that is no Error
Rejections == {"Error", "other"}

\* import.meta.env.VITE_X || import.meta.env.X
Config(e, prefixed, plain) == IF e[prefixed] # "" THEN e[prefixed] ELSE e[plain]

EMAILJS_SERVICE_ID(e) == Config(e, "VITE_EMAILJS_SERVICE_ID", "EMAILJS_SERVICE_ID")
EMAILJS_TEMPLATE_ID(e) == Config(e, "VITE_EMAILJS_TEMPLATE_ID", "EMAILJS_TEMPLATE_ID")
EMAILJS_PUBLIC_KEY(e) == Config(e, "VITE_EMAILJS_PUBLIC_KEY", "EMAILJS_PUBLIC_KEY")

\* ConfigMissing testing the service id alone.
ConfigMissing_ServiceOnly(e) == EMAILJS_SERVICE_ID(e) = ""

\* !EMAILJS_SERVICE_ID || !EMAILJS_TEMPLATE_ID || !EMAILJS_PUBLIC_KEY
ConfigMissing(e) ==
    \/ EMAILJS_SERVICE_ID(e) = ""
    \/ EMAILJS_TEMPLATE_ID(e) = ""
    \/ EMAILJS_PUBLIC_KEY(e) = ""

\* useState initial formData
InitialFormData(user) ==
    [name |-> IF user # None THEN user[1].full_name ELSE "",
     email |-> IF user # None THEN user[1].email ELSE "",
     subject |-> "",
     message |-> ""]

\* ClearedForm clearing the whole form.
ClearedForm_All(prev) == [name |-> "", email |-> "", subject |-> "", message |-> ""]

\* setFormData((prev) => ({ ...prev, subject: "", message: "" }))
ClearedForm(prev) == [prev EXCEPT !.subject = "", !.message = ""]

\* error instanceof Error ? error.message : fallback
MessageOf(rejection) == IF rejection = "Error" THEN NetworkMessage ELSE FallbackMessage

ContactEvent(op, id) == [op |-> op, id |-> id]

InFlight == {i \in DOMAIN deliveries : deliveries[i].state = "inflight"}

ContactInit ==
    /\ env \in Envs
    /\ \E user \in Users : formData = InitialFormData(user)
    /\ status = "idle"
    /\ errorMessage = ""
    /\ deliveries = <<>>
    /\ timers = <<>>
    /\ toasts = <<>>
    /\ submissions = 0
    /\ owner = 0
    /\ cevent = ContactEvent("none", 0)

\* The form as first rendered for an anonymous visitor of a fully configured
\* build: the state the Contact variables keep while only the Filter panel
\* is exercised.
ContactQuiet ==
    /\ env = [n \in EnvNames |-> n]
    /\ formData = InitialFormData(None)
    /\ status = "idle"
    /\ errorMessage = ""
    /\ deliveries = <<>>
    /\ timers = <<>>
    /\ toasts = <<>>
    /\ submissions = 0
    /\ owner = 0
    /\ cevent = ContactEvent("none", 0)

\* onChange of an input: setFormData((prev) => ({ ...prev, [field]: value }))
EditField(field, value) ==
    /\ formData' = [formData EXCEPT ![field] = value]
    /\ toasts' = <<>>
    /\ cevent' = ContactEvent("edit", 0)
    /\ UNCHANGED <<env, status, errorMessage, deliveries, timers, submissions, owner>>
    /\ UNCHANGED fvars

\* The submit button is enabled and every required input is filled in.
CanSubmit ==
    /\ status # "loading"
    /\ \A f \in Fields : formData[f] # ""

\* handleSubmit up to its first await: with the configuration missing it runs
\* to its end (catch, finally); otherwise it calls emailjs.send and suspends.
Submit ==
    /\ CanSubmit
    /\ submissions < MaxSubmissions
    /\ LET id == submissions + 1
       IN /\ submissions' = id
          /\ owner' = id
          /\ cevent' = ContactEvent("submit", id)
          /\ IF ConfigMissing(env)
             THEN /\ status' = "error"
                  /\ errorMessage' = ConfigErrorMessage
                  /\ toasts' = <<"error">>
                  /\ timers' = Append(timers, id)
                  /\ UNCHANGED deliveries
             ELSE /\ status' = "loading"
                  /\ deliveries' = Append(deliveries,
                        [id |-> id,
                         args |-> <<EMAILJS_SERVICE_ID(env), EMAILJS_TEMPLATE_ID(env),
                                    EMAILJS_PUBLIC_KEY(env)>>,
                         payload |-> formData,
                         state |-> "inflight"])
                  /\ toasts' = <<>>
                  /\ UNCHANGED <<errorMessage, timers>>
    /\ UNCHANGED <<env, formData>>
    /\ UNCHANGED fvars

\* emailjs.send resolves: the rest of the try block, then finally.
DeliveryResolve(i) ==
    /\ i \in InFlight
    /\ deliveries' = [deliveries EXCEPT ![i].state = "resolved"]
    /\ status' = "success"
    /\ toasts' = <<"success">>
    /\ formData' = ClearedForm(formData)
    /\ timers' = Append(timers, deliveries[i].id)
    /\ owner' = deliveries[i].id
    /\ cevent' = ContactEvent("resolve", deliveries[i].id)
    /\ UNCHANGED <<env, errorMessage, submissions>>
    /\ UNCHANGED fvars

\* emailjs.send rejects: catch, then finally.
DeliveryReject(i, rejection) ==
    /\ i \in InFlight
    /\ deliveries' = [deliveries EXCEPT ![i].state = "rejected"]
    /\ status' = "error"
    /\ errorMessage' = MessageOf(rejection)
    /\ toasts' = <<"error">>
    /\ timers' = Append(timers, deliveries[i].id)
    /\ owner' = deliveries[i].id
    /\ cevent' = ContactEvent("reject", deliveries[i].id)
    /\ UNCHANGED <<env, formData, submissions>>
    /\ UNCHANGED fvars

\* The oldest pending timer fires: setStatus("idle").
TimerFire ==
    /\ timers # <<>>
    /\ status' = "idle"
    /\ timers' = Tail(timers)
    /\ toasts' = <<>>
    /\ cevent' = ContactEvent("timer", Head(timers))
    /\ UNCHANGED <<env, formData, errorMessage, deliveries, submissions, owner>>
    /\ UNCHANGED fvars

ContactNext ==
    \/ \E field \in Fields : \E value \in FieldStrings(field) : EditField(field, value)
    \/ Submit
    \/ \E i \in DOMAIN deliveries : DeliveryResolve(i)
    \/ \E i \in DOMAIN deliveries : \E r \in Rejections : DeliveryReject(i, r)
    \/ TimerFire

(***************************************************************************)
(* Claims: Contact form                                                    *)
(***************************************************************************)

\* C1: a timer scheduled by one submission never resets the status of a later
\* one: whenever a timer fires while status is not idle, the timer belongs to
\* the submission that last wrote status.
C1_StaleTimerNeverResets ==
    [][(cevent'.op = "timer" /\ status # "idle") => cevent'.id = owner]_vars

\* C7: at most one delivery call is in flight, and status is loading exactly
\* while one is.
C7_LoadingIffInFlight ==
    /\ Cardinality(InFlight) <= 1
    /\ status = "loading" <=> InFlight # {}

\* One of the three configuration values is set under neither of its names.
ConfigAbsent ==
    \E pair \in {<<"VITE_EMAILJS_SERVICE_ID", "EMAILJS_SERVICE_ID">>,
                 <<"VITE_EMAILJS_TEMPLATE_ID", "EMAILJS_TEMPLATE_ID">>,
                 <<"VITE_EMAILJS_PUBLIC_KEY", "EMAILJS_PUBLIC_KEY">>} :
        env[pair[1]] = "" /\ env[pair[2]] = ""

\* C8: with a configuration value absent under both names, a submission ends
\* with status error and the missing-configuration message, send is never
\* called, and the form fields are unchanged.
C8_ConfigError ==
    /\ [][(cevent'.op = "submit" /\ ConfigAbsent) =>
            /\ status' = "error"
            /\ errorMessage' = "EmailJS configuration is missing. Please check your .env file."
            /\ deliveries' = deliveries
            /\ formData' = formData]_vars
    /\ [](ConfigAbsent => deliveries = <<>>)

\* C8 witness: a submission has just ended in the configuration error.
C8_Witness ==
    /\ ConfigAbsent
    /\ cevent.op = "submit"
    /\ status = "error"
    /\ errorMessage = ConfigErrorMessage
    /\ toasts = <<"error">>
    /\ deliveries = <<>>
    /\ \A f \in Fields : formData[f] # ""

\* C9: when a delivery resolves, status becomes success, exactly one success
\* notification fires, subject and message become empty and name and email
\* keep the values they had just before; a failed submission changes no field.
C9_SuccessEffect ==
    [][/\ cevent'.op = "resolve" =>
            /\ status' = "success"
            /\ toasts' = <<"success">>
            /\ formData' = [name |-> formData.name, email |-> formData.email,
                            subject |-> "", message |-> ""]
       /\ (cevent'.op = "reject" \/ (cevent'.op = "submit" /\ status' = "error")) =>
            formData' = formData]_vars

\* C9 witness: a delivery has just resolved after the name was edited while
\* it was in flight, and the edited name is kept.
C9_Witness ==
    /\ cevent.op = "resolve"
    /\ status = "success"
    /\ toasts = <<"success">>
    /\ formData.subject = "" /\ formData.message = ""
    /\ formData.name = "Bob"
    /\ \E i \in DOMAIN deliveries :
          /\ deliveries[i].id = cevent.id
          /\ deliveries[i].state = "resolved"
          /\ deliveries[i].payload.name = "Ann"

(***************************************************************************)
(* Claims: Filter panel                                                    *)
(***************************************************************************)

\* C2: after a mount that found a persisted snapshot for the current path,
\* the panel's filters equal that snapshot, whatever the parent supplied.
C2_SnapshotWinsOnMount ==
    (mounted /\ fevent.op = "mount" /\ savedState # None) => filters = savedState[1]

\* C3: in mobile mode with an apply callback, handleFilterChange invokes no
\* callback; the apply callback is invoked only by Apply or Reset; and Apply
\* passes exactly the panel's filters of that moment.
C3_MobileDefers ==
    (isMobile /\ hasOnApply) =>
        /\ fevent.op = "change" => calls = <<>>
        /\ (\E i \in DOMAIN calls : calls[i].cb = "onApply") => fevent.op \in {"apply", "reset"}
        /\ fevent.op = "apply" => calls = <<[cb |-> "onApply", arg |-> filters]>>

\* C3 witness: Apply has just passed edited (non-default) filters to onApply.
C3_Witness ==
    /\ isMobile /\ hasOnApply
    /\ fevent.op = "apply"
    /\ initialFilters = None /\ savedState = None
    /\ filters = [genre |-> "action", year |-> "2020", sort |-> "release_date.asc"]
    /\ calls = <<[cb |-> "onApply", arg |-> filters]>>

\* C4: in desktop mode every handleFilterChange(key, value) invokes the change
\* callback exactly once in that step, with the field key set to the new
\* (lowercased) value and the other two fields as the panel had them.
C4_DesktopImmediate ==
    [][(fevent'.op = "change" /\ ~isMobile) =>
          /\ Len(calls') = 1
          /\ calls'[1].cb = "onFilterChange"
          /\ calls'[1].arg = filters'
          /\ calls'[1].arg[fevent'.key] = ToLowerCase(fevent'.value)
          /\ \A k \in Keys \ {fevent'.key} : calls'[1].arg[k] = filters[k]]_vars

\* C4 witness: a desktop genre change reported with the year and sort that
\* an earlier parent update had merged in.
C4_Witness ==
    /\ ~isMobile
    /\ fevent.op = "change" /\ fevent.key = "genre" /\ fevent.value = "Action"
    /\ initialFilters = Some([genre |-> "action", year |-> "2020", sort |-> "popularity.desc"])
    /\ savedState = None
    /\ calls = <<[cb |-> "onFilterChange",
                  arg |-> [genre |-> "action", year |-> "2020", sort |-> "popularity.desc"]]>>

\* C5: Reset leaves the panel at the defaults, persists them, and invokes
\* exactly one callback with them: onApply in mobile mode with an apply
\* callback, otherwise onFilterChange.
C5_Reset ==
    fevent.op = "reset" =>
        LET d == [genre |-> "", year |-> "", sort |-> "popularity.desc"]
        IN /\ filters = d
           /\ store[pathname] = Some(d)
           /\ calls = <<[cb |-> IF isMobile /\ hasOnApply THEN "onApply" ELSE "onFilterChange",
                         arg |-> d]>>

\* C5 witness: a mobile panel that was mounted from a non-default snapshot has
\* just been reset through onApply.
C5_Witness ==
    /\ fevent.op = "reset"
    /\ isMobile /\ hasOnApply
    /\ savedState # None /\ savedState[1].genre = "action" /\ savedState[1].year = "2020"
    /\ filters = defaultFilters
    /\ calls = <<[cb |-> "onApply", arg |-> defaultFilters]>>

\* C6: after every operation the snapshot persisted under the current path
\* equals the panel's filters, whether or not a callback fired.
C6_PersistedEqualsState ==
    mounted => store[pathname] = Some(filters)

\* C6 witness: a mobile edit that fired no callback is already in the store.
C6_Witness ==
    /\ mounted /\ isMobile /\ hasOnApply
    /\ fevent.op = "change"
    /\ calls = <<>>
    /\ filters # defaultFilters
    /\ store[pathname] = Some(filters)

\* C10: every field of the panel's filters equals its own lowercase form.
C10_Lowercase ==
    mounted => \A k \in Keys : filters[k] = ToLowerCase(filters[k])

(***************************************************************************)
(* Specifications                                                          *)
(***************************************************************************)
FilterSpecInit == FilterInit /\ ContactQuiet

FilterSpec == FilterSpecInit /\ [][FilterNext]_vars

ContactSpecInit == ContactInit /\ FilterQuiet

ContactSpec == ContactSpecInit /\ [][ContactNext]_vars

====
